---- MODULE Spec2Model ----
(***************************************************************************)
(* Static-layout PNOR item updater (item_updater_static.cpp):              *)
(*   utils::pflash, utils::getPNORVersion, utils::pnorClear,               *)
(*   utils::getPartsToClear, ItemUpdaterStatic::processPNORImage, reset,   *)
(*   isVersionFunctional, freeSpace, updateFunctionalAssociation and       *)
(*   GardResetStatic::reset.                                               *)
(*                                                                         *)
(* Three specifications share the module:                                  *)
(*   Spec       - the updater object driven by a single caller             *)
(*   SpecParse  - utils::getPartsToClear(info) applied to bounded listings *)
(*   SpecDecode - the version decoding of utils::getPNORVersion applied to *)
(*                bounded version partition images                         *)
(***************************************************************************)
EXTENDS Integers, Sequences, FiniteSets, TLC

VARIABLES
    pc,                  \* position of the single caller thread
    op,                  \* operation the caller is in / was last in
    partitions,          \* reset(): local `partitions`
    idx,                 \* reset(): index of the range-for over partitions
    suspended,           \* hiomapd: suspended by this process and not resumed
    trace,               \* signals and pflash clears of the current invocation
    queried,             \* the current invocation ran `pflash -i`
    activations,         \* ItemUpdater::activations  (std::map id -> Activation)
    versions,            \* ItemUpdater::versions     (std::map id -> Version)
    assocs,              \* ItemUpdater::assocs       (association edges)
    functionalVersionId, \* ItemUpdaterStatic::functionalVersionId
    lastVersion,         \* what the last getPNORVersion() run did
    lastCall,            \* arguments and outcome of the last completed call
    registeredLast,      \* id of the entity processPNORImage registered last
    functionalArgLast,   \* argument of the last updateFunctionalAssociation
    pInfo, pResult, pDone,          \* SpecParse: input, output, applied
    dBlob, dGarbage, dVersion, dDone \* SpecDecode: input, stack, output, applied

vars == <<pc, op, partitions, idx, suspended, trace, queried, activations,
          versions, assocs, functionalVersionId, lastVersion, lastCall,
          registeredLast, functionalArgLast,
          pInfo, pResult, pDone, dBlob, dGarbage, dVersion, dDone>>

mainVars == <<pc, op, partitions, idx, suspended, trace, queried, activations,
              versions, assocs, functionalVersionId, lastVersion, lastCall,
              registeredLast, functionalArgLast>>
parseVars == <<pInfo, pResult, pDone>>
decodeVars == <<dBlob, dGarbage, dVersion, dDone>>

---------------------------------------------------------------------------
(* Bounds of the model *)

MaxLines == 2        \* lines of a `pflash -i` listing in Spec
MaxListingLen == 6   \* characters of a listing in SpecParse
MaxShortBlob == 5    \* bytes of an exhaustively enumerated image in SpecDecode
MaxTail == 2         \* bytes following the 4K header of a long image

---------------------------------------------------------------------------
(* Strings are sequences of one-character strings; bytes are 0..255.       *)

NUL == 0
LF == 10
SP == " "
NL == "\n"

Min(a, b) == IF a < b THEN a ELSE b

\* std::string::find(c, from): 1-based index of the first c at or after
\* `from`, 0 for npos.
Find(s, c, from) ==
    LET hits == {i \in from..Len(s) : s[i] = c}
    IN  IF hits = {} THEN 0 ELSE CHOOSE i \in hits : \A j \in hits : i <= j

\* std::string::find_first_not_of(c): 1-based, 0 for npos.
FindFirstNotOf(s, c) ==
    LET hits == {i \in 1..Len(s) : s[i] # c}
    IN  IF hits = {} THEN 0 ELSE CHOOSE i \in hits : \A j \in hits : i <= j

\* std::string::substr(pos) with a 1-based pos.
SubstrFrom(s, pos) == SubSeq(s, pos, Len(s))

---------------------------------------------------------------------------
(* utils::getPartsToClear(const std::string& info)                         *)

\* std::getline(iss, line) until it fails: the '\n'-separated lines; a
\* final line without '\n' is returned, an empty remainder is not.
RECURSIVE ReadLines(_)
ReadLines(s) ==
    IF s = <<>> THEN <<>>
    ELSE LET p == Find(s, NL, 1)
         IN  IF p = 0 THEN <<s>>
             ELSE <<SubSeq(s, 1, p - 1)>> \o ReadLines(SubstrFrom(s, p + 1))

\* One pass of the while body: the PartClear entries it emplaces (none or one).
PartsOfLine(line) ==
    LET pos == Find(line, "[", 1)
    IN  IF pos = 0 THEN <<>>
        ELSE
        LET flags == SubstrFrom(line, pos)
        IN  IF Find(flags, "F", 1) = 0 THEN <<>>
            ELSE
            LET pos1 == Find(line, SP, 1)              \* After "ID=xx"
            IN  IF pos1 = 0 THEN <<>>
                ELSE
                LET line1 == SubstrFrom(line, pos1)
                    pos2 == FindFirstNotOf(line1, SP)  \* After spaces
                IN  IF pos2 = 0 THEN <<>>
                    ELSE
                    LET line2 == SubstrFrom(line1, pos2)
                        pos3 == Find(line2, SP, 1)     \* The end of part name
                    IN  IF pos3 = 0 THEN <<>>
                        ELSE
                        LET name == SubSeq(line2, 1, pos3 - 1)
                            ecc == Find(flags, "E", 1) # 0
                        IN  << <<name, ecc>> >>

\* Mutant: a line that yields nothing ends the loop (break for continue).
RECURSIVE PartsOfLines_StopAtEmpty(_, _)
PartsOfLines_StopAtEmpty(lines, ret) ==
    IF lines = <<>> THEN ret
    ELSE IF PartsOfLine(Head(lines)) = <<>> THEN ret
    ELSE PartsOfLines_StopAtEmpty(Tail(lines), ret \o PartsOfLine(Head(lines)))

\* The while loop over the lines, appending to `ret`.
RECURSIVE PartsOfLines(_, _)
PartsOfLines(lines, ret) ==
    IF lines = <<>> THEN ret
    ELSE PartsOfLines(Tail(lines), ret \o PartsOfLine(Head(lines)))

getPartsToClear(info) == PartsOfLines(ReadLines(info), <<>>)

---------------------------------------------------------------------------
(* utils::getPNORVersion(): decoding of the version file                   *)

MAGIC == <<23, 8, 32, 17>>      \* {0x17, 0x08, 0x20, 0x11}
MAGIC_SIZE == 4
HeaderSize == 4096

\* std::ifstream over the bytes of the file: position (0-based count of
\* bytes consumed) and the failbit / eofbit of its state.
OpenStream(blob) == [data |-> blob, pos |-> 0, fail |-> FALSE, eof |-> FALSE]

StreamGood(f) == ~f.fail /\ ~f.eof

\* f.read(buf, n): the sentry fails on a stream that is not good; otherwise
\* the available bytes are stored and a short read sets failbit | eofbit.
\* Bytes of buf that were not stored keep what the stack held (`garbage`).
StreamRead(f, n, garbage) ==
    IF ~StreamGood(f) THEN [f |-> [f EXCEPT !.fail = TRUE], buf |-> garbage]
    ELSE
    LET avail == Len(f.data) - f.pos
        got == Min(n, avail)
        buf == [i \in 1..n |-> IF i <= got THEN f.data[f.pos + i] ELSE garbage[i]]
    IN  [f |-> [f EXCEPT !.pos = f.pos + got,
                         !.fail = avail < n,
                         !.eof = avail < n],
         buf |-> buf]

\* f.seekg(0, std::ios::beg): clears eofbit, then seeks unless fail().
StreamSeekBegin(f) ==
    IF f.fail THEN [f EXCEPT !.eof = FALSE]
    ELSE [f EXCEPT !.eof = FALSE, !.pos = 0]

\* f.ignore(n): nothing on a stream that is not good (failbit is set);
\* otherwise skips n bytes, eofbit when the data ends first.
StreamIgnore(f, n) ==
    IF ~StreamGood(f) THEN [f EXCEPT !.fail = TRUE]
    ELSE
    LET avail == Len(f.data) - f.pos
    IN  [f EXCEPT !.pos = f.pos + Min(n, avail), !.eof = avail < n]

\* getline(f, version, '\0') into an empty string: on a stream that is not
\* good the string is left as it was (empty); otherwise the bytes up to the
\* first NUL or the end of the data.
StreamGetline(f) ==
    IF ~StreamGood(f) THEN <<>>
    ELSE
    LET nul == {i \in (f.pos + 1)..Len(f.data) : f.data[i] = NUL}
        stop == IF nul = {} THEN Len(f.data) + 1
                ELSE CHOOSE i \in nul : \A j \in nul : i <= j
    IN  SubSeq(f.data, f.pos + 1, stop - 1)

\* Lines 90-103: read the magic, rewind, skip the 4K header, read the text.
DecodeVersionFile(blob, garbage) ==
    LET f0 == OpenStream(blob)
        r == StreamRead(f0, MAGIC_SIZE, garbage)
        f1 == StreamSeekBegin(r.f)
        f2 == IF r.buf = MAGIC THEN StreamIgnore(f1, HeaderSize) ELSE f1
    IN  StreamGetline(f2)

\* utils::pflash: popen() of the command line; throws when popen() fails,
\* otherwise returns {rc, stdout}.
pflash(popenOk, rc, out) ==
    IF ~popenOk THEN [raised |-> TRUE, rc |-> rc, out |-> <<>>]
    ELSE [raised |-> FALSE, rc |-> rc, out |-> out]

\* utils::getPNORVersion(): what the call does, given what the environment
\* does to it: mkdtemp() succeeding, popen() succeeding, the exit code of
\* pflash, the image it writes, the stack bytes under `magic`, and
\* remove_all() succeeding.
\*   raised: the call left by an exception; version: the returned string;
\*   tmpCreated / tmpExists: the temp dir was made / is still there at exit;
\*   toolRun: pflash was invoked; removeFailed: remove_all() gave an error.
getPNORVersion(mkdtempOk, popenOk, rc, blob, garbage, removeOk) ==
    IF ~mkdtempOk
    THEN [raised |-> FALSE, version |-> <<>>, tmpCreated |-> FALSE,
          tmpExists |-> FALSE, toolRun |-> FALSE, failed |-> TRUE,
          removeFailed |-> FALSE]
    ELSE
    LET r == pflash(popenOk, rc, <<>>)
    IN  IF r.raised
        THEN [raised |-> TRUE, version |-> <<>>, tmpCreated |-> TRUE,
              tmpExists |-> TRUE, toolRun |-> TRUE, failed |-> TRUE,
              removeFailed |-> FALSE]
        ELSE IF r.rc # 0
        THEN [raised |-> FALSE, version |-> <<>>, tmpCreated |-> TRUE,
              tmpExists |-> TRUE, toolRun |-> TRUE, failed |-> TRUE,
              removeFailed |-> FALSE]
        ELSE [raised |-> FALSE, version |-> DecodeVersionFile(blob, garbage),
              tmpCreated |-> TRUE, tmpExists |-> ~removeOk, toolRun |-> TRUE,
              failed |-> FALSE, removeFailed |-> ~removeOk]

\* Mutant: the two modes of line 122 swapped.
pnorClearMode_Swapped(shouldEcc) == IF shouldEcc THEN "-e" ELSE "-c"

\* utils::pnorClear(part, shouldEcc): the mode handed to pflash.
pnorClearMode(shouldEcc) == IF shouldEcc THEN "-c" ELSE "-e"

---------------------------------------------------------------------------
(* Collaborators of the updater that live in other translation units       *)

\* Version::getVersions(fullVersion): the first line is the version, what
\* follows it the extended version; an empty text gives two empty fields.
getVersions(fullVersion) ==
    LET p == Find(fullVersion, LF, 1)
    IN  IF p = 0 THEN <<fullVersion, <<>> >>
        ELSE <<SubSeq(fullVersion, 1, p - 1), SubstrFrom(fullVersion, p + 1)>>

\* Version::getId(version): a short digest of the version, empty for an
\* empty version. The digest is kept injective: the length then the bytes.
getId(version) == IF version = <<>> THEN <<>> ELSE <<Len(version)>> \o version

\* fs::path(SOFTWARE_OBJPATH) / id
ObjPath(id) == [root |-> "SOFTWARE_OBJPATH", leaf |-> id]

Edge(kind, path) == [kind |-> kind, path |-> path]

\* ItemUpdater::createActiveAssociation(path)
createActiveAssociation(as, path) == as \cup {Edge("active", path)}

\* ItemUpdater::createUpdateableAssociation(path)
createUpdateableAssociation(as, path) == as \cup {Edge("updateable", path)}

\* ItemUpdater::updateFunctionalAssociation(versionId): the functional edge
\* is moved to the path of versionId.
baseUpdateFunctionalAssociation(as, versionId) ==
    {e \in as : e.kind # "functional"} \cup {Edge("functional", ObjPath(versionId))}

\* ItemUpdater::erase(entryId): when it goes through, the entity, its version
\* record and the edges of its path are removed.
erase(st, entryId, eraseOk) ==
    IF ~eraseOk THEN [st |-> st, ret |-> FALSE]
    ELSE [st |-> [st EXCEPT
                    !.activations = [k \in DOMAIN st.activations \ {entryId}
                                       |-> st.activations[k]],
                    !.versions = [k \in DOMAIN st.versions \ {entryId}
                                    |-> st.versions[k]],
                    !.assocs = {e \in st.assocs :
                                  ~(e.kind \in {"active", "updateable"}
                                    /\ e.path = ObjPath(entryId))}],
          ret |-> TRUE]

---------------------------------------------------------------------------
(* ItemUpdaterStatic                                                       *)

\* std::map::insert(std::make_pair(k, v)): no effect when k is present.
MapInsert(m, k, v) ==
    IF k \in DOMAIN m THEN m
    ELSE [x \in DOMAIN m \cup {k} |-> IF x = k THEN v ELSE m[x]]

\* Lines 248-261: the activation state from the two parsed fields.
ActivationStateOf(version, extendedVersion) ==
    IF version = <<>> \/ extendedVersion = <<>> THEN "Invalid" ELSE "Active"

\* Mutant: the override only forwards to the base class and forgets the id.
updateFunctionalAssociation_ForwardOnly(st, versionId) ==
    [st EXCEPT !.assocs = baseUpdateFunctionalAssociation(st.assocs, versionId)]

\* ItemUpdaterStatic::updateFunctionalAssociation(versionId)
updateFunctionalAssociation(st, versionId) ==
    [st EXCEPT !.functionalVersionId = versionId,
               !.assocs = baseUpdateFunctionalAssociation(st.assocs, versionId)]

\* Mutant: lines 288-295 left out, no RedundancyPriority is created.
RegisterActivation_NoPriority(st, id, extendedVersion, activationState) ==
    LET path == ObjPath(id)
        associations == IF activationState = "Active"
                        THEN {"HOST_INVENTORY_PATH"} ELSE {}
        as1 == IF activationState = "Active"
               THEN createActiveAssociation(st.assocs, path) ELSE st.assocs
        as2 == createUpdateableAssociation(as1, path)
        act == [versionId |-> id, extendedVersion |-> extendedVersion,
                activation |-> activationState, associations |-> associations,
                redundancyPriority |-> <<>>]
    IN  [st EXCEPT !.assocs = as2,
                   !.activations = MapInsert(st.activations, id, act)]

\* Lines 267-295: the associations, the Activation inserted into
\* `activations`, and the RedundancyPriority set on the entry found for id.
RegisterActivation(st, id, extendedVersion, activationState) ==
    LET path == ObjPath(id)
        associations == IF activationState = "Active"
                        THEN {"HOST_INVENTORY_PATH"} ELSE {}
        as1 == IF activationState = "Active"
               THEN createActiveAssociation(st.assocs, path) ELSE st.assocs
        as2 == createUpdateableAssociation(as1, path)
        act == [versionId |-> id, extendedVersion |-> extendedVersion,
                activation |-> activationState, associations |-> associations,
                redundancyPriority |-> <<>>]
        acts1 == MapInsert(st.activations, id, act)
        acts2 == IF activationState = "Active"
                 THEN [acts1 EXCEPT ![id].redundancyPriority = <<0>>]
                 ELSE acts1
    IN  [st EXCEPT !.assocs = as2, !.activations = acts2]

\* Lines 297-302: the Version inserted into `versions`.
RegisterVersion(st, id, version) ==
    [st EXCEPT !.versions =
        MapInsert(st.versions, id,
                  [versionId |-> id, version |-> version, purpose |-> "Host",
                   filePath |-> <<>>])]

\* Mutant: the early return of lines 242-246 on an empty id is left out.
processPNORImage_NoIdCheck(st, fullVersion) ==
    LET vs == getVersions(fullVersion)
        version == vs[1]
        extendedVersion == vs[2]
        id == getId(version)
        activationState == ActivationStateOf(version, extendedVersion)
        st1 == RegisterActivation(st, id, extendedVersion, activationState)
        st2 == RegisterVersion(st1, id, version)
    IN  updateFunctionalAssociation(st2, id)

\* ItemUpdaterStatic::processPNORImage() from line 239 on, given the string
\* getPNORVersion() returned.
processPNORImage(st, fullVersion) ==
    LET vs == getVersions(fullVersion)
        version == vs[1]
        extendedVersion == vs[2]
        id == getId(version)
    IN  IF id = <<>> THEN st     \* Possibly a corrupted PNOR
        ELSE
        LET activationState == ActivationStateOf(version, extendedVersion)
            st1 == RegisterActivation(st, id, extendedVersion, activationState)
            st2 == RegisterVersion(st1, id, version)
        IN  IF id # <<>> THEN updateFunctionalAssociation(st2, id) ELSE st2

\* ItemUpdaterStatic::isVersionFunctional(versionId)
isVersionFunctional(versionId) == versionId = functionalVersionId

\* Order of the keys of a std::map<std::string, ...>.
RECURSIVE KeyLess(_, _)
KeyLess(a, b) ==
    IF b = <<>> THEN FALSE
    ELSE IF a = <<>> THEN TRUE
    ELSE IF Head(a) # Head(b) THEN Head(a) < Head(b)
    ELSE KeyLess(Tail(a), Tail(b))

\* Mutant: freeSpace() reports success without erasing anything.
freeSpace_NoErase(st, eraseOk) == [st |-> st, ret |-> TRUE]

\* ItemUpdaterStatic::freeSpace(): erase the first Active entry, in key order.
freeSpace(st, eraseOk) ==
    LET active == {k \in DOMAIN st.activations :
                     st.activations[k].activation = "Active"}
    IN  IF active = {} THEN [st |-> st, ret |-> TRUE]
        ELSE LET first == CHOOSE k \in active :
                             \A j \in active \ {k} : KeyLess(k, j)
             IN  erase(st, st.activations[first].versionId, eraseOk)

---------------------------------------------------------------------------
(* What the environment can hand to the program                            *)

ExitCodes == {0, 1}

\* Stack contents under the uninitialised `magic` array.
StackGarbage == {MAGIC, <<0, 0, 0, 0>>}

\* Images of the VERSION partition read back by pflash in Spec:
\* "A\nB", "A", "B\nB", "\nB", an erased partition, and a two-byte file.
VersionBlobs ==
    { <<65, LF, 66, NUL>>, <<65, NUL, NUL, NUL>>, <<66, LF, 66, NUL>>,
      <<LF, 66, NUL, NUL>>, <<NUL, NUL, NUL, NUL>>, <<65, LF>> }

\* Lines of a `pflash -i` listing in Spec:
\* "I A [EF]", "I B [-F]", "I C [E-]" and the malformed "ID[F]".
MainLines ==
    { <<"I", " ", "A", " ", "[", "E", "F", "]">>,
      <<"I", " ", "B", " ", "[", "-", "F", "]">>,
      <<"I", " ", "C", " ", "[", "E", "-", "]">>,
      <<"I", "D", "[", "F", "]">> }

RECURSIVE ListingsOf(_)
ListingsOf(k) ==
    IF k = 0 THEN {<<>>}
    ELSE LET prev == ListingsOf(k - 1)
         IN  prev \cup {l \o ln \o <<NL>> : l \in prev, ln \in MainLines}

Listings == ListingsOf(MaxLines)

GUARD == <<"G", "U", "A", "R", "D">>

\* Ids a caller outside this class passes to updateFunctionalAssociation.
CallerIds == {<<>>, getId(<<65>>), getId(<<66>>), getId(<<67>>)}

---------------------------------------------------------------------------
(* State of the updater                                                    *)

Registry ==
    [activations |-> activations, versions |-> versions, assocs |-> assocs,
     functionalVersionId |-> functionalVersionId]

SetRegistry(st) ==
    /\ activations' = st.activations
    /\ versions' = st.versions
    /\ assocs' = st.assocs
    /\ functionalVersionId' = st.functionalVersionId

registryVars == <<activations, versions, assocs, functionalVersionId>>
resetVars == <<partitions, idx, suspended, trace, queried>>
ghostVars == <<registeredLast, functionalArgLast>>

Event(kind, part, mode, rc) ==
    [kind |-> kind, part |-> part, mode |-> mode, rc |-> rc]

NoVersionRun ==
    [raised |-> FALSE, version |-> <<>>, tmpCreated |-> FALSE,
     tmpExists |-> FALSE, toolRun |-> FALSE, failed |-> FALSE,
     removeFailed |-> FALSE]

NoCall ==
    [op |-> "none", id |-> <<>>, ret |-> TRUE,
     before |-> [activations |-> <<>>, versions |-> <<>>, assocs |-> {},
                 functionalVersionId |-> <<>>]]

MainInit ==
    /\ pc = "idle"
    /\ op = "none"
    /\ partitions = <<>>
    /\ idx = 1
    /\ suspended = FALSE
    /\ trace = <<>>
    /\ queried = FALSE
    /\ activations = <<>>
    /\ versions = <<>>
    /\ assocs = {}
    /\ functionalVersionId = <<>>
    /\ lastVersion = NoVersionRun
    /\ lastCall = NoCall
    /\ registeredLast = <<>>
    /\ functionalArgLast = <<>>

ParseIdle == pInfo = <<>> /\ pResult = <<>> /\ pDone = FALSE
DecodeIdle == dBlob = <<>> /\ dGarbage = <<>> /\ dVersion = <<>> /\ dDone = FALSE

Init == MainInit /\ ParseIdle /\ DecodeIdle

\* trace, partitions, idx and queried describe the invocation of reset() in
\* progress or last run; lastVersion and lastCall the last call of another
\* operation. Each call starts with the records of the other kind blank.
ClearResetHistory ==
    /\ partitions' = <<>>
    /\ idx' = 1
    /\ trace' = <<>>
    /\ queried' = FALSE

ClearCallHistory ==
    /\ lastVersion' = NoVersionRun
    /\ lastCall' = NoCall

---------------------------------------------------------------------------
(* ItemUpdaterStatic::processPNORImage()                                   *)

ProcessImage ==
    /\ pc = "idle"
    /\ \E mkdtempOk \in BOOLEAN, popenOk \in BOOLEAN, rc \in ExitCodes,
          blob \in VersionBlobs, garbage \in StackGarbage, removeOk \in BOOLEAN :
         LET v == getPNORVersion(mkdtempOk, popenOk, rc, blob, garbage, removeOk)
             id == getId(getVersions(v.version)[1])
         IN  /\ lastVersion' = v
             /\ op' = "processImage"
             /\ lastCall' = [op |-> "processImage", id |-> id, ret |-> TRUE,
                             before |-> Registry]
             /\ IF v.raised
                THEN /\ pc' = "crashed"
                     /\ UNCHANGED <<registryVars, ghostVars>>
                ELSE /\ pc' = "idle"
                     /\ SetRegistry(processPNORImage(Registry, v.version))
                     /\ registeredLast' = IF id # <<>> THEN id ELSE registeredLast
                     /\ functionalArgLast' =
                            IF id # <<>> THEN id ELSE functionalArgLast
    /\ ClearResetHistory
    /\ UNCHANGED <<suspended, parseVars, decodeVars>>

(* A caller (the activation flow) invoking updateFunctionalAssociation(id) *)
UpdateFunctionalAssociation ==
    /\ pc = "idle"
    /\ \E id \in CallerIds :
         /\ SetRegistry(updateFunctionalAssociation(Registry, id))
         /\ op' = "updateFunctionalAssociation"
         /\ lastCall' = [op |-> "updateFunctionalAssociation", id |-> id,
                         ret |-> TRUE, before |-> Registry]
         /\ functionalArgLast' = id
    /\ lastVersion' = NoVersionRun
    /\ ClearResetHistory
    /\ UNCHANGED <<pc, suspended, registeredLast, parseVars, decodeVars>>

(* ItemUpdaterStatic::freeSpace() *)
FreeSpace ==
    /\ pc = "idle"
    /\ \E eraseOk \in BOOLEAN :
         LET r == freeSpace(Registry, eraseOk)
         IN  /\ SetRegistry(r.st)
             /\ op' = "freeSpace"
             /\ lastCall' = [op |-> "freeSpace", id |-> <<>>, ret |-> r.ret,
                             before |-> Registry]
    /\ lastVersion' = NoVersionRun
    /\ ClearResetHistory
    /\ UNCHANGED <<pc, suspended, ghostVars, parseVars, decodeVars>>

---------------------------------------------------------------------------
(* The access mediator (utils::hiomapdSuspend / utils::hiomapdResume)      *)

hiomapdSuspend ==
    /\ suspended' = TRUE
    /\ trace' = Append(trace, Event("suspend", <<>>, "", 0))

hiomapdResume ==
    /\ suspended' = FALSE
    /\ trace' = Append(trace, Event("resume", <<>>, "", 0))

---------------------------------------------------------------------------
(* ItemUpdaterStatic::reset()                                              *)

\* Line 312: utils::getPartsToClear() runs `pflash -i | grep ...` and parses
\* its output whatever the exit code; a failing popen() throws out of reset().
ResetQuery ==
    /\ pc = "idle"
    /\ \E popenOk \in BOOLEAN, rc \in ExitCodes, info \in Listings :
         LET r == pflash(popenOk, rc, info)
         IN  /\ op' = "reset"
             /\ trace' = <<>>
             /\ idx' = 1
             /\ queried' = TRUE
             /\ IF r.raised
                THEN pc' = "crashed" /\ partitions' = <<>>
                ELSE pc' = "reset_suspend" /\ partitions' = getPartsToClear(r.out)
    /\ ClearCallHistory
    /\ UNCHANGED <<suspended, registryVars, ghostVars, parseVars, decodeVars>>

\* Mutant: line 314 left out, the loop starts without the suspend.
ResetSuspend_Skipped ==
    /\ pc = "reset_suspend"
    /\ pc' = "reset_loop"
    /\ UNCHANGED <<op, partitions, idx, suspended, trace, queried, registryVars,
                   lastVersion, lastCall, ghostVars, parseVars, decodeVars>>

\* Line 314
ResetSuspend ==
    /\ pc = "reset_suspend"
    /\ hiomapdSuspend
    /\ pc' = "reset_loop"
    /\ UNCHANGED <<op, partitions, idx, queried, registryVars, lastVersion,
                   lastCall, ghostVars, parseVars, decodeVars>>

\* Lines 316-318 and 121-122: pnorClear(p.first, p.second) launches pflash
\* on the next partition; a failing popen() throws out of the loop.
ResetClearStart ==
    /\ pc = "reset_loop"
    /\ idx <= Len(partitions)
    /\ \E popenOk \in BOOLEAN :
         LET p == partitions[idx]
             r == pflash(popenOk, 0, <<>>)
         IN  IF r.raised
             THEN pc' = "crashed" /\ UNCHANGED trace
             ELSE /\ pc' = "reset_clearing"
                  /\ trace' = Append(trace,
                                     Event("clear", p[1], pnorClearMode(p[2]), 0))
    /\ UNCHANGED <<op, partitions, idx, suspended, queried, registryVars,
                   lastVersion, lastCall, ghostVars, parseVars, decodeVars>>

\* Lines 57-58 and 123-133: pflash ends with some exit code, which is logged;
\* the loop goes on to the next partition.
ResetClearEnd ==
    /\ pc = "reset_clearing"
    /\ \E rc \in ExitCodes :
         trace' = Append(trace, Event("cleared", partitions[idx][1], "", rc))
    /\ idx' = idx + 1
    /\ pc' = "reset_loop"
    /\ UNCHANGED <<op, partitions, suspended, queried, registryVars,
                   lastVersion, lastCall, ghostVars, parseVars, decodeVars>>

\* Mutant: reset() also drops the registered entities before it resumes.
ResetResume_ErasesEntities ==
    /\ pc = "reset_loop"
    /\ idx > Len(partitions)
    /\ hiomapdResume
    /\ pc' = "idle"
    /\ activations' = <<>>
    /\ versions' = <<>>
    /\ UNCHANGED <<op, partitions, idx, queried, assocs, functionalVersionId,
                   lastVersion, lastCall, ghostVars, parseVars, decodeVars>>

\* Line 321
ResetResume ==
    /\ pc = "reset_loop"
    /\ idx > Len(partitions)
    /\ hiomapdResume
    /\ pc' = "idle"
    /\ UNCHANGED <<op, partitions, idx, queried, registryVars, lastVersion,
                   lastCall, ghostVars, parseVars, decodeVars>>

---------------------------------------------------------------------------
(* GardResetStatic::reset()                                                *)

\* Line 364
GardSuspend ==
    /\ pc = "idle"
    /\ op' = "gardReset"
    /\ queried' = FALSE
    /\ suspended' = TRUE
    /\ trace' = <<Event("suspend", <<>>, "", 0)>>
    /\ pc' = "gard_clear"
    /\ partitions' = <<>>
    /\ idx' = 1
    /\ ClearCallHistory
    /\ UNCHANGED <<registryVars, ghostVars, parseVars, decodeVars>>

\* Line 366: pnorClear("GUARD") with shouldEcc defaulted to true.
GardClearStart ==
    /\ pc = "gard_clear"
    /\ \E popenOk \in BOOLEAN :
         LET r == pflash(popenOk, 0, <<>>)
         IN  IF r.raised
             THEN pc' = "crashed" /\ UNCHANGED trace
             ELSE /\ pc' = "gard_clearing"
                  /\ trace' = Append(trace,
                                     Event("clear", GUARD, pnorClearMode(TRUE), 0))
    /\ UNCHANGED <<op, partitions, idx, suspended, queried, registryVars,
                   lastVersion, lastCall, ghostVars, parseVars, decodeVars>>

GardClearEnd ==
    /\ pc = "gard_clearing"
    /\ \E rc \in ExitCodes :
         trace' = Append(trace, Event("cleared", GUARD, "", rc))
    /\ pc' = "gard_resume"
    /\ UNCHANGED <<op, partitions, idx, suspended, queried, registryVars,
                   lastVersion, lastCall, ghostVars, parseVars, decodeVars>>

\* Line 368
GardResume ==
    /\ pc = "gard_resume"
    /\ hiomapdResume
    /\ pc' = "idle"
    /\ UNCHANGED <<op, partitions, idx, queried, registryVars, lastVersion,
                   lastCall, ghostVars, parseVars, decodeVars>>

---------------------------------------------------------------------------

Next ==
    \/ ProcessImage
    \/ UpdateFunctionalAssociation
    \/ FreeSpace
    \/ ResetQuery
    \/ ResetSuspend
    \/ ResetClearStart
    \/ ResetClearEnd
    \/ ResetResume
    \/ GardSuspend
    \/ GardClearStart
    \/ GardClearEnd
    \/ GardResume

Spec == Init /\ [][Next]_vars

---------------------------------------------------------------------------
(* SpecParse: getPartsToClear(info) on every listing of bounded length     *)

ParseAlphabet == {" ", "[", "]", "F", "E", "A", NL}

\* Every string over the alphabet up to MaxListingLen, and the longer
\* listings made of up to MaxLines + 1 whole lines.
ParseInputs ==
    UNION {[1..n -> ParseAlphabet] : n \in 0..MaxListingLen}
        \cup ListingsOf(MaxLines + 1)

InitParse ==
    /\ MainInit /\ DecodeIdle
    /\ pInfo \in ParseInputs
    /\ pResult = <<>>
    /\ pDone = FALSE

ParseListing ==
    /\ ~pDone
    /\ pResult' = getPartsToClear(pInfo)
    /\ pDone' = TRUE
    /\ UNCHANGED <<pInfo, mainVars, decodeVars>>

NextParse == ParseListing

SpecParse == InitParse /\ [][NextParse]_vars

---------------------------------------------------------------------------
(* SpecDecode: the decoding of getPNORVersion() on bounded images          *)

DecodeAlphabet == {NUL, 65} \cup {MAGIC[i] : i \in 1..MAGIC_SIZE}

ShortBlobs == UNION {[1..n -> DecodeAlphabet] : n \in 0..MaxShortBlob}

Tails == UNION {[1..n -> {NUL, 65, 66}] : n \in 0..MaxTail}

\* A four-byte head, a filler up to around the 4K boundary, and a tail.
LongBlobs ==
    { head \o [i \in 1..(HeaderSize - MAGIC_SIZE + d) |-> fill] \o tail :
        head \in {MAGIC, <<65, 66, 65, 66>>}, d \in {-1, 0, 1},
        fill \in {NUL, 67}, tail \in Tails }

InitDecode ==
    /\ MainInit /\ ParseIdle
    /\ dBlob \in ShortBlobs \cup LongBlobs
    /\ dGarbage \in StackGarbage
    /\ dVersion = <<>>
    /\ dDone = FALSE

DecodeBlob ==
    /\ ~dDone
    /\ dVersion' = DecodeVersionFile(dBlob, dGarbage)
    /\ dDone' = TRUE
    /\ UNCHANGED <<dBlob, dGarbage, mainVars, parseVars>>

NextDecode == DecodeBlob

SpecDecode == InitDecode /\ [][NextDecode]_vars

---------------------------------------------------------------------------
(* Properties                                                              *)

Kinds(tr) == [i \in 1..Len(tr) |-> tr[i].kind]

IsSignal(e) == e.kind \in {"suspend", "resume"}

Signals(tr) == Kinds(SelectSeq(tr, IsSignal))

\* An invocation of reset() is over: it returned, or an exception left it.
ResetEnded == op = "reset" /\ pc \in {"idle", "crashed"}

\* What the last processPNORImage() run parsed.
ParsedVersion == getVersions(lastVersion.version)[1]
ParsedExtendedVersion == getVersions(lastVersion.version)[2]
ProcessImageReturned == op = "processImage" /\ pc = "idle"

\* C1: in every factoryReset() invocation, whatever the candidates and
\* whichever clears fail, once suspend has been issued resume is issued by
\* the time the invocation is over, each exactly once and in that order.
C1_SuspendThenResumeOnce ==
    /\ ResetEnded /\ Signals(trace) # <<>> => Signals(trace) = <<"suspend", "resume">>
    /\ op = "reset" =>
         /\ Cardinality({i \in 1..Len(trace) : trace[i].kind = "suspend"}) <= 1
         /\ Cardinality({i \in 1..Len(trace) : trace[i].kind = "resume"}) <= 1

\* C2: every clear handed to the flash tool, successful or failed, comes
\* after the suspend and before the resume of its invocation, and no clear
\* is in progress while the access mediator is not suspended.
C2_ClearsInsideBracket ==
    /\ pc \in {"reset_clearing", "gard_clearing"} => suspended
    /\ \A i \in 1..Len(trace) :
         trace[i].kind \in {"clear", "cleared"} =>
            /\ \E j \in 1..(i - 1) : trace[j].kind = "suspend"
            /\ \A j \in 1..(i - 1) : trace[j].kind # "resume"

\* A second clear is in progress after a first one failed.
C2_Witness ==
    /\ pc = "reset_clearing"
    /\ idx = 2
    /\ \E i \in 1..Len(trace) : trace[i].kind = "cleared" /\ trace[i].rc # 0

\* C3: processImage() on an image whose version decodes to the empty
\* string registers no entity and no version record and leaves the
\* functional marker as it was.
C3_EmptyVersionRegistersNothing ==
    ProcessImageReturned /\ ParsedVersion = <<>> =>
        /\ activations = lastCall.before.activations
        /\ versions = lastCall.before.versions
        /\ functionalVersionId = lastCall.before.functionalVersionId

\* The tool read the image, it decoded to an empty version, and an entity
\* registered earlier is still the functional one.
C3_Witness ==
    /\ ProcessImageReturned
    /\ ~lastVersion.failed
    /\ ParsedVersion = <<>>
    /\ functionalVersionId # <<>>
    /\ functionalVersionId \in DOMAIN activations

\* C4: processImage() on an empty registry with a non-empty version and a
\* non-empty extended version registers exactly one entity, Active, with
\* redundancy priority 0 and the active, updateable and functional edges of
\* its path.
C4_ActiveEntityOnEmptyRegistry ==
    /\ ProcessImageReturned
    /\ lastCall.before.activations = <<>>
    /\ ParsedVersion # <<>>
    /\ ParsedExtendedVersion # <<>>
    => /\ DOMAIN activations = {lastCall.id}
       /\ activations[lastCall.id].activation = "Active"
       /\ activations[lastCall.id].redundancyPriority = <<0>>
       /\ \A k \in {"active", "updateable", "functional"} :
            Edge(k, ObjPath(lastCall.id)) \in assocs

C4_Witness ==
    /\ ProcessImageReturned
    /\ lastCall.before.activations = <<>>
    /\ ParsedVersion # <<>>
    /\ ParsedExtendedVersion # <<>>
    /\ DOMAIN activations = {lastCall.id}

\* C5: processImage() with a non-empty version and an empty extended
\* version registers an Invalid entity without the active edge and without
\* a redundancy priority, but with the updateable edge.
C5_InvalidEntity ==
    /\ ProcessImageReturned
    /\ ParsedVersion # <<>>
    /\ ParsedExtendedVersion = <<>>
    => /\ lastCall.id \in DOMAIN activations
       /\ activations[lastCall.id].activation = "Invalid"
       /\ activations[lastCall.id].redundancyPriority = <<>>
       /\ Edge("active", ObjPath(lastCall.id)) \notin assocs
       /\ Edge("updateable", ObjPath(lastCall.id)) \in assocs

\* C6 as stated: after any calls, isVersionFunctional(id) holds only for the
\* non-empty id of the entity registered last.
C6_OnlyLastRegistered ==
    op # "none" =>
        \A id \in CallerIds :
            isVersionFunctional(id) => id # <<>> /\ id = registeredLast

\* C6 amended: isVersionFunctional(id) holds exactly for the argument of the
\* last updateFunctionalAssociation call, made by processImage() with the
\* non-empty id it registers or made directly, and for the empty id before
\* any such call; no other operation changes the marker.
C6_LastFunctionalArgument ==
    \A id \in CallerIds : isVersionFunctional(id) <=> id = functionalArgLast

\* A direct call has moved the marker away from the entity registered last.
C6_Witness ==
    /\ op = "updateFunctionalAssociation"
    /\ registeredLast # <<>>
    /\ functionalVersionId # registeredLast
    /\ functionalVersionId # <<>>

\* C7: the registry never holds more than one entity.
C7_AtMostOneEntity == Cardinality(DOMAIN activations) <= 1

\* C8: extractVersion() never raises, every failure of it gives the empty
\* string, and no failure leaves processImage() or factoryReset() as an
\* unhandled fault.
C8_NeverRaises ==
    /\ pc # "crashed"
    /\ lastVersion.failed => ~lastVersion.raised /\ lastVersion.version = <<>>

\* The text the claim C9 describes: from offset 4096 with the magic in
\* front, from offset 0 without it, up to the first NUL or the end.
TextFromOffset(blob) ==
    LET magic == Len(blob) >= MAGIC_SIZE /\ SubSeq(blob, 1, MAGIC_SIZE) = MAGIC
        start == IF magic THEN HeaderSize ELSE 0
        nul == {i \in (start + 1)..Len(blob) : blob[i] = NUL}
        stop == IF nul = {} THEN Len(blob) + 1
                ELSE CHOOSE i \in nul : \A j \in nul : i <= j
    IN  SubSeq(blob, start + 1, stop - 1)

\* C9: for every image, the decoded version is the bytes from the start
\* offset (4096 after the magic, 0 otherwise) to the first NUL or the end.
C9_DecodedFromOffset == dDone => dVersion = TextFromOffset(dBlob)

\* The flags of a line as the claim C10 reads them: what stands between the
\* first '[' and the ']' that closes it (the rest of the line when no ']'
\* closes it); none without a '['.
BracketedFlags(line) ==
    LET open == Find(line, "[", 1)
        close == IF open = 0 THEN 0 ELSE Find(line, "]", open)
    IN  IF open = 0 THEN <<>>
        ELSE IF close = 0 THEN SubstrFrom(line, open + 1)
        ELSE SubSeq(line, open + 1, close - 1)

HasFlag(line, c) == Find(BracketedFlags(line), c, 1) # 0

\* C10: parse returns descriptors only for lines with an F among their
\* bracketed flags, each with requiresEcc true iff the flags contain E:
\* the descriptors map, in order, to such lines.
C10_OnlyFlaggedLines ==
    pDone =>
        LET lines == ReadLines(pInfo)
        IN  \E f \in [1..Len(pResult) -> 1..Len(lines)] :
              /\ \A i, j \in 1..Len(pResult) : i < j => f[i] < f[j]
              /\ \A i \in 1..Len(pResult) :
                   /\ HasFlag(lines[f[i]], "F")
                   /\ pResult[i][2] <=> HasFlag(lines[f[i]], "E")

\* The partitions reset() has called pnorClear for so far: the clears that
\* were launched and, when an exception left the loop, the one whose launch
\* threw.
ClearAttempts ==
    IF pc = "crashed" /\ trace # <<>> THEN idx ELSE idx - 1

IsClear(e) == e.kind = "clear"

Clears(tr) == SelectSeq(tr, IsClear)

\* C11: in factoryReset() every reset candidate gets exactly one clear
\* attempt, in listing order, whatever the results of the earlier ones.
C11_EveryCandidateAttempted ==
    ResetEnded /\ trace # <<>> =>
        /\ ClearAttempts = Len(partitions)
        /\ \A i \in 1..Len(Clears(trace)) :
             Clears(trace)[i].part = partitions[i][1]

\* C12: a registered entity has a redundancy priority (0) exactly when its
\* activation state is Active.
C12_PriorityIffActive ==
    \A id \in DOMAIN activations :
        activations[id].redundancyPriority = <<0>>
            <=> activations[id].activation = "Active"

\* C13: after processImage() has run for an id, registered before or not,
\* the entity of that id is the one built from the latest parse: its
\* state, extended version, priority and active edge all agree with it.
C13_EntityFromLatestParse ==
    ProcessImageReturned /\ lastCall.id # <<>> =>
        LET e == activations[lastCall.id]
            state == ActivationStateOf(ParsedVersion, ParsedExtendedVersion)
        IN  /\ e.activation = state
            /\ e.extendedVersion = ParsedExtendedVersion
            /\ e.redundancyPriority = (IF state = "Active" THEN <<0>> ELSE <<>>)
            /\ Edge("active", ObjPath(lastCall.id)) \in assocs
                 <=> state = "Active"

\* C14: whenever extractVersion() returns after creating the temporary
\* store, also when the flash tool exited non-zero, the store is gone
\* (a remove_all() that itself fails set aside).
C14_TempStoreRemoved ==
    /\ lastVersion.tmpCreated
    /\ ~lastVersion.raised
    /\ ~lastVersion.removeFailed
    => ~lastVersion.tmpExists

\* C15: the clear issued for a candidate uses the ECC-preserving mode (-c)
\* if and only if the candidate's requiresEcc is true, the full erase (-e)
\* otherwise.
C15_EccModeIffRequired ==
    op = "reset" =>
        \A i \in 1..Len(Clears(trace)) :
            /\ Clears(trace)[i].mode \in {"-c", "-e"}
            /\ Clears(trace)[i].mode = "-c" <=> partitions[i][2]

\* A reset that cleared one candidate in each mode has returned.
C15_Witness ==
    /\ op = "reset" /\ pc = "idle"
    /\ \E i, j \in 1..Len(trace) :
         /\ trace[i].kind = "clear" /\ trace[i].mode = "-c"
         /\ trace[j].kind = "clear" /\ trace[j].mode = "-e"

\* C16 as stated: once factoryReset() has returned, no entity is registered.
C16_NoEntityAfterReset ==
    op = "reset" /\ pc = "idle" => DOMAIN activations = {}

\* C16 amended: no step of factoryReset() touches the registry; entities,
\* version records, associations and the functional marker are after it
\* what they were before it.
C16_ResetKeepsRegistry ==
    [][op' = "reset" => UNCHANGED registryVars]_vars

\* A reset that cleared a partition has returned and an entity is registered.
C16_Witness ==
    /\ op = "reset" /\ pc = "idle"
    /\ DOMAIN activations # {}
    /\ \E i \in 1..Len(trace) : trace[i].kind = "cleared"

\* A line that lacks a delimiter the parser looks for: the '[' that opens
\* the flag field, or the space that sets off the partition name.
Malformed(line) ==
    /\ line # <<>>
    /\ Find(line, NL, 1) = 0
    /\ Find(line, "[", 1) = 0 \/ Find(line, SP, 1) = 0

\* C17: parse works line by line.  At every line break of the listing the
\* result is the result for the text before the break followed by the result
\* for the text after it, and a malformed line on its own yields nothing; so
\* a malformed line neither changes nor suppresses what the lines around it
\* produce.
C17_LineByLine ==
    pDone =>
        /\ \A p \in 1..Len(pInfo) :
             pInfo[p] = NL =>
                 pResult = getPartsToClear(SubSeq(pInfo, 1, p - 1))
                               \o getPartsToClear(SubstrFrom(pInfo, p + 1))
        /\ Malformed(pInfo) => pResult = <<>>

\* A parsed listing with a malformed line between two lines that each
\* produced a descriptor.
C17_Witness ==
    /\ pDone
    /\ \E p, q \in 1..Len(pInfo) :
         /\ p < q /\ pInfo[p] = NL /\ pInfo[q] = NL
         /\ Malformed(SubSeq(pInfo, p + 1, q - 1))
         /\ Len(getPartsToClear(SubSeq(pInfo, 1, p - 1))) = 1
         /\ Len(getPartsToClear(SubstrFrom(pInfo, q + 1))) = 1
    /\ Len(pResult) = 2
    /\ pResult[1] # pResult[2]

GardEnded == op = "gardReset" /\ pc \in {"idle", "crashed"}

\* C18: the guard reset issues exactly one suspend, then exactly one clear,
\* of the guard partition only, then exactly one resume, and never queries
\* the partition inventory, whether or not the clear succeeds.
C18_GardExactSequence ==
    GardEnded =>
        /\ Signals(trace) = <<"suspend", "resume">>
        /\ Kinds(Clears(trace)) = <<"clear">>
        /\ Kinds(trace)[1] = "suspend"
        /\ Kinds(trace)[Len(trace)] = "resume"
        /\ \A i \in 1..Len(trace) :
             trace[i].kind \in {"clear", "cleared"} => trace[i].part = GUARD
        /\ ~queried

ActiveIn(st) ==
    {k \in DOMAIN st.activations : st.activations[k].activation = "Active"}

\* The registry is `before` with entity k, its version record and the
\* active/updateable edges of its path taken away.
ErasedFrom(before, k) ==
    /\ DOMAIN activations = DOMAIN before.activations \ {k}
    /\ \A j \in DOMAIN activations : activations[j] = before.activations[j]
    /\ DOMAIN versions = DOMAIN before.versions \ {k}
    /\ \A j \in DOMAIN versions : versions[j] = before.versions[j]
    /\ assocs \subseteq before.assocs
    /\ \A e \in before.assocs \ assocs : e.path = ObjPath(k)
    /\ functionalVersionId = before.functionalVersionId

\* C19: freeSpace() erases a registered Active entity when there is one and
\* returns that erase's result (true: exactly that entity is gone; false:
\* nothing changed); with no Active entity it returns true and leaves the
\* registry and the functional marker as they were.
C19_FreeSpaceErasesActive ==
    op = "freeSpace" =>
        LET before == lastCall.before
        IN  IF ActiveIn(before) = {}
            THEN lastCall.ret /\ Registry = before
            ELSE IF lastCall.ret
                 THEN \E k \in ActiveIn(before) : ErasedFrom(before, k)
                 ELSE Registry = before

\* freeSpace() has erased an Active entity and returned true.
C19_Witness ==
    /\ op = "freeSpace"
    /\ lastCall.ret
    /\ \E k \in ActiveIn(lastCall.before) : k \notin DOMAIN activations

====
